---- MODULE Spec2Model ----
(***************************************************************************)
(* Record-linkage pipeline of SpatialMerge (MSD = base dataset, LMD =      *)
(* auxiliary dataset): data preparation, candidate generation (spatial,    *)
(* road-segment, exhaustive), filtering, best-match selection and output   *)
(* assembly, as run by WorkerThread.run (gui.py) and merge_msd_lmd         *)
(* (main.py).                                                              *)
(*                                                                         *)
(* A DataFrame is a sequence of rows; a row is a record.  The empty        *)
(* DataFrame pl.DataFrame() is the table with no columns and no rows.      *)
(* Times are whole seconds, chainages whole metres, "Start/End Chainage    *)
(* (km)" whole kilometres.  Points lie on one meridian and Lat is the arc  *)
(* length in metres from the equator, so that the haversine distance       *)
(* between two points, scaled by EARTH_RADIUS_M, is |Lat1 - Lat2|.         *)
(***************************************************************************)
EXTENDS Integers, Sequences, FiniteSets, TLC

VARIABLES
    msd_raw,       \* the base CSV as read: [cols, rows]
    lmd_raw,       \* the aux CSV as read:  [cols, rows]
    params,        \* the parameters of the run
    pc,            \* position of the run in the pipeline
    msd_df,        \* prepared base table (rows)
    lmd_df,        \* prepared aux table (rows)
    pairs_df,      \* candidate pairs: [cols, rows]
    strategy,      \* the strategy that produced pairs_df
    filtered,      \* the pairs that survived the filters (rows)
    best_matches,  \* best match per base row: [cols, rows]
    result,        \* assembled output: [cols, rows]
    saved,         \* TRUE once save_output has written the CSV
    signal,        \* terminal outcome of the run
    gui            \* the main window: buttons, file paths, worker threads

vars == <<msd_raw, lmd_raw, params, pc, msd_df, lmd_df, pairs_df, strategy,
          filtered, best_matches, result, saved, signal, gui>>

(***************************************************************************)
(* Values                                                                  *)
(***************************************************************************)
\* polars null in a numeric / datetime column
NULL == -1
\* polars null in a string column
NoStr == "null"

VALID_LANES == {"L1", "R1", "L2", "R2", "LSK1", "RSK1"}

DEFAULT_MAX_TIME_DIFF_SEC == 10
DEFAULT_MAX_CHAINAGE_DIFF_M == 5
DEFAULT_MAX_SPATIAL_DIST_M == 100
PAIRS_THRESHOLD == 10000000

\* bounds of the model: rows per input table, selected aux columns
MaxBase == 2
MaxAux == 2
MaxCols == 2
MaxRadius == 3
MaxPairs == 2
\* the number of CSV records a row of a large input stands for
LargeScale == 4000
\* the number of worker threads the main window starts
MaxWorkers == 2

Abs(x) == IF x < 0 THEN -x ELSE x

EmptyDF == [cols |-> {}, rows |-> <<>>]

\* no output table (the column names of an output table are a sequence)
NoResult == [cols |-> <<>>, rows |-> <<>>]

\* all sequences over S of length at most n
SeqsUpTo(S, n) == UNION {[1..k -> S] : k \in 0..n}

(***************************************************************************)
(* data_preparation.py                                                     *)
(***************************************************************************)
\* a lane mapping that knows "1" only
MapLaneFirstOnly(lane) ==
    IF lane = "1" THEN "L1" ELSE lane

\* Lane mapping: "1" -> "L1", "2" -> "L2", anything else unchanged
MapLane(lane) ==
    IF lane = "1" THEN "L1" ELSE IF lane = "2" THEN "L2" ELSE lane

\* with_row_index(name): number the rows 0, 1, ... in table order
WithRowIndexMsd(rows) == [i \in 1..Len(rows) |-> rows[i] @@ [msd_idx |-> i - 1]]
WithRowIndexLmd(rows) == [i \in 1..Len(rows) |-> rows[i] @@ [lmd_idx |-> i - 1]]

\* prepare_msd_data: normalise and filter lanes, parse dates (rows with an
\* unparseable date are dropped when the file has a TestDateUTC column, the
\* column is all null when it has none), parse coordinates and chainage (rows
\* with a null Lat/Lon/Chain are dropped), then number the rows.
prepare_msd_data(raw) ==
    LET lanes == [i \in 1..Len(raw.rows) |->
                    [raw.rows[i] EXCEPT !.Lane = MapLane(@)]]
        valid == SelectSeq(lanes, LAMBDA r : r.Lane \in VALID_LANES)
        dated == IF "TestDateUTC" \in raw.cols
                 THEN SelectSeq(valid, LAMBDA r : r.Time # NULL)
                 ELSE [i \in 1..Len(valid) |-> [valid[i] EXCEPT !.Time = NULL]]
        located == SelectSeq(dated, LAMBDA r : r.Lat # NULL /\ r.Chain # NULL)
    IN  WithRowIndexMsd(located)

\* prepare_lmd_data: as for the base table, but coordinates are optional (a
\* file without latitude column gets an all-null Lat) and Chain falls back to
\* "Start Chainage (km)" * 1000; only rows with a null Chain are dropped.
prepare_lmd_data(raw) ==
    LET lanes == [i \in 1..Len(raw.rows) |->
                    [raw.rows[i] EXCEPT !.Lane = MapLane(@)]]
        valid == SelectSeq(lanes, LAMBDA r : r.Lane \in VALID_LANES)
        dated == IF "TestDateUTC" \in raw.cols
                 THEN SelectSeq(valid, LAMBDA r : r.Time # NULL)
                 ELSE [i \in 1..Len(valid) |-> [valid[i] EXCEPT !.Time = NULL]]
        chain(r) == IF "chainage" \in raw.cols THEN r.Chain
                    ELSE IF "Start Chainage (km)" \in raw.cols
                         THEN (IF r.StartKm = NULL THEN NULL ELSE r.StartKm * 1000)
                         ELSE NULL
        coords == [i \in 1..Len(dated) |->
                    [dated[i] EXCEPT
                        !.Lat = IF "lat" \in raw.cols THEN @ ELSE NULL,
                        !.Chain = chain(dated[i])]]
        located == SelectSeq(coords, LAMBDA r : r.Chain # NULL)
    IN  WithRowIndexLmd(located)

(***************************************************************************)
(* matching.py: candidate generation                                       *)
(***************************************************************************)
RECURSIVE Flatten(_)
\* concatenation of a sequence of sequences (list.append in nested loops)
Flatten(ss) == IF ss = <<>> THEN <<>> ELSE Head(ss) \o Flatten(Tail(ss))

\* the indices of keys as a sequence in ascending order of key, equal keys
\* in index order
SortedIdx(keys) ==
    [i \in 1..Len(keys) |->
        CHOOSE j \in 1..Len(keys) :
            Cardinality({k \in 1..Len(keys) :
                            \/ keys[k] < keys[j]
                            \/ keys[k] = keys[j] /\ k < j}) = i - 1]

\* the columns every pair table gets from the two joins with the source rows
PairCols == {"msd_idx", "lmd_idx", "Lane_msd", "Time_msd", "Chain_msd",
             "RoadName_msd", "Lane_lmd", "Time_lmd", "Chain_lmd",
             "RoadName_lmd"}

\* one candidate pair joined with the attributes of its two source rows;
\* lane_lmd is the aux column the strategy renames to Lane_lmd
JoinPair(m, l, lane_lmd, dist) ==
    [msd_idx |-> m.msd_idx, lmd_idx |-> l.lmd_idx,
     Lane_msd |-> m.Lane, Time_msd |-> m.Time, Chain_msd |-> m.Chain,
     RoadName_msd |-> m.RoadName,
     Lane_lmd |-> lane_lmd, Time_lmd |-> l.Time, Chain_lmd |-> l.Chain,
     RoadName_lmd |-> l.RoadName,
     spatial_dist_m |-> dist]

\* great-circle distance in metres between a base and an aux point
SpatialDist(m, l) == Abs(m.Lat - l.Lat)

\* radius tests that differ from the query's: exclusive, and reversed
WithinRadiusStrict(dist, max_spatial_dist_m) == dist < max_spatial_dist_m
BeyondRadius(dist, max_spatial_dist_m) == dist >= max_spatial_dist_m

\* the radius test of the spatial query
WithinRadius(dist, max_spatial_dist_m) == dist <= max_spatial_dist_m

\* BallTree construction and query raise on an empty table and on a NaN
\* coordinate (a null Lat of the aux table)
SpatialRaises(msd, lmd) ==
    \/ Len(msd) = 0
    \/ Len(lmd) = 0
    \/ \E j \in 1..Len(lmd) : lmd[j].Lat = NULL

\* perform_spatial_matching: for each base row in order, the aux rows sorted
\* by distance (equidistant ones by index) that lie within the radius
perform_spatial_matching(msd, lmd, max_spatial_dist_m) ==
    LET dists(i) == [j \in 1..Len(lmd) |-> SpatialDist(msd[i], lmd[j])]
        valid == [i \in 1..Len(msd) |->
                    SelectSeq(SortedIdx(dists(i)),
                           LAMBDA j : WithinRadius(SpatialDist(msd[i], lmd[j]),
                                                   max_spatial_dist_m))]
        row == [i \in 1..Len(msd) |->
                  [k \in 1..Len(valid[i]) |->
                     JoinPair(msd[i], lmd[valid[i][k]], lmd[valid[i][k]].Lane,
                              SpatialDist(msd[i], lmd[valid[i][k]]))]]
        pairs == Flatten(row)
    IN  IF pairs = <<>> THEN EmptyDF
        ELSE [cols |-> PairCols \cup {"spatial_dist_m"}, rows |-> pairs]

\* create_cartesian_pairs: every base row with every aux row, base-major
create_cartesian_pairs(msd, lmd) ==
    LET pairs == Flatten([i \in 1..Len(msd) |->
                     [j \in 1..Len(lmd) |->
                        JoinPair(msd[i], lmd[j], lmd[j].Lane, NULL)]])
    IN  IF pairs = <<>> THEN EmptyDF ELSE [cols |-> PairCols, rows |-> pairs]

\* a grouping key that also separates rows by chainage
RoadLaneChainKey(r) == <<r.RoadName, r.Lane, r.Chain>>

\* the grouping key of create_road_based_pairs
RoadLaneKey(r) == <<r.RoadName, r.Lane>>

\* create_road_based_pairs: pairs within equal (RoadName, Lane) groups, the
\* groups in order of their first base row
create_road_based_pairs(msd, lmd) ==
    LET first(i) == CHOOSE f \in 1..i :
                        /\ RoadLaneKey(msd[f]) = RoadLaneKey(msd[i])
                        /\ \A g \in 1..(f - 1) :
                              RoadLaneKey(msd[g]) # RoadLaneKey(msd[i])
        order == SortedIdx([a \in 1..Len(msd) |-> first(a)])
        group(i) == SelectSeq([j \in 1..Len(lmd) |-> j],
                       LAMBDA j : RoadLaneKey(lmd[j]) = RoadLaneKey(msd[i]))
        pairs == Flatten([k \in 1..Len(msd) |->
                     [n \in 1..Len(group(order[k])) |->
                        JoinPair(msd[order[k]], lmd[group(order[k])[n]],
                                 lmd[group(order[k])[n]].Lane, NULL)]])
    IN  IF pairs = <<>> THEN EmptyDF ELSE [cols |-> PairCols, rows |-> pairs]

\* create_all_pairs: road-grouped pairs when enable_road, cartesian otherwise
create_all_pairs(msd, lmd, enable_road) ==
    IF enable_road THEN create_road_based_pairs(msd, lmd)
    ELSE create_cartesian_pairs(msd, lmd)

\* the columns perform_road_based_matching requires
RequiredMsdCols == {"road_id", "region_id"}
RequiredLmdCols == {"road_id", "region_id", "Start Chainage (km)", "End Chainage (km)"}

\* a chainage bound compared as it is read, in kilometres
KmAsRead(km) == km

\* conversion of a "... Chainage (km)" value to metres
KmToM(km) == km * 1000

\* a containment test that reads a malformed bound as 0
InSegmentNullAsZero(m, l) ==
    /\ m.road_id = l.road_id
    /\ m.region_id = l.region_id
    /\ KmToM(IF l.StartKm = NULL THEN 0 ELSE l.StartKm) <= m.Chain
    /\ m.Chain <= KmToM(IF l.EndKm = NULL THEN 0 ELSE l.EndKm)

\* the containment test of perform_road_based_matching
InSegment(m, l) ==
    /\ m.road_id = l.road_id
    /\ m.region_id = l.region_id
    /\ l.StartKm # NULL
    /\ l.EndKm # NULL
    /\ KmToM(l.StartKm) <= m.Chain
    /\ m.Chain <= KmToM(l.EndKm)

\* the second join of perform_road_based_matching selects the aux column
\* "Lanes" and raises when the aux table has none
RoadJoinRaises(mcols, lcols, msd, lmd) ==
    /\ RequiredMsdCols \subseteq mcols
    /\ RequiredLmdCols \subseteq lcols
    /\ \E i \in 1..Len(msd), j \in 1..Len(lmd) : InSegment(msd[i], lmd[j])
    /\ "Lanes" \notin lcols

\* perform_road_based_matching: aux-major, a pair for each base row of the
\* same road and region whose chainage lies within the aux segment
perform_road_based_matching(mcols, lcols, msd, lmd) ==
    LET hits(j) == SelectSeq([i \in 1..Len(msd) |-> i],
                      LAMBDA i : InSegment(msd[i], lmd[j]))
        pairs == Flatten([j \in 1..Len(lmd) |->
                     [n \in 1..Len(hits(j)) |->
                        JoinPair(msd[hits(j)[n]], lmd[j], lmd[j].Lanes, NULL)]])
    IN  IF ~(RequiredMsdCols \subseteq mcols /\ RequiredLmdCols \subseteq lcols)
        THEN EmptyDF
        ELSE IF pairs = <<>> THEN EmptyDF
        ELSE [cols |-> PairCols, rows |-> pairs]

(***************************************************************************)
(* matching.py: filter_and_select_matches                                  *)
(***************************************************************************)
\* has_valid_time_data: both time columns exist and neither is all null
has_valid_time_data(pairs) ==
    /\ {"Time_msd", "Time_lmd"} \subseteq pairs.cols
    /\ \E i \in 1..Len(pairs.rows) : pairs.rows[i].Time_msd # NULL
    /\ \E i \in 1..Len(pairs.rows) : pairs.rows[i].Time_lmd # NULL

\* (a - b).abs() with null propagation
AbsDiff(a, b) == IF a = NULL \/ b = NULL THEN NULL ELSE Abs(a - b)

\* the difference columns: time_diff only with valid time data,
\* chainage_diff whenever both Chain columns exist
WithDiffColumns(pairs) ==
    LET hvt == has_valid_time_data(pairs)
        hch == {"Chain_msd", "Chain_lmd"} \subseteq pairs.cols
    IN  [cols |-> pairs.cols \cup (IF hvt THEN {"time_diff"} ELSE {})
                             \cup (IF hch THEN {"chainage_diff"} ELSE {}),
         rows |-> [i \in 1..Len(pairs.rows) |->
                    pairs.rows[i] @@
                    [time_diff |-> IF hvt
                                   THEN AbsDiff(pairs.rows[i].Time_msd,
                                                pairs.rows[i].Time_lmd)
                                   ELSE NULL,
                     chainage_diff |-> IF hch
                                       THEN AbsDiff(pairs.rows[i].Chain_msd,
                                                    pairs.rows[i].Chain_lmd)
                                       ELSE NULL]]]

\* string equality of two columns; null on either side is not a match
StrEq(a, b) == a # NoStr /\ b # NoStr /\ a = b

\* the lane condition
LaneCondition(r, cols, enable_road) ==
    IF enable_road /\ "Lane_lmd" \in cols
    THEN r.Lane_lmd = "ALL" \/ StrEq(r.Lane_msd, r.Lane_lmd)
    ELSE StrEq(r.Lane_msd, r.Lane_lmd)

\* the time condition, appended when enable_time and has_valid_time_data
TimeCondition(r, max_time_diff_sec) ==
    r.time_diff # NULL /\ r.time_diff <= max_time_diff_sec

\* the chainage condition of mixed matching
ChainageCondition(r, max_chainage_diff_m) ==
    r.chainage_diff # NULL /\ r.chainage_diff <= max_chainage_diff_m

\* the road conditions: road name only for pure road-based matching, chainage
\* difference and road name for mixed matching, none when road is disabled
RoadCondition(r, max_chainage_diff_m, enable_time, enable_road, enable_spatial) ==
    IF enable_road /\ ~(enable_spatial \/ enable_time)
    THEN StrEq(r.RoadName_msd, r.RoadName_lmd)
    ELSE IF enable_road
         THEN /\ ChainageCondition(r, max_chainage_diff_m)
              /\ StrEq(r.RoadName_msd, r.RoadName_lmd)
         ELSE TRUE

\* a filter that keeps a pair as soon as one of the conditions holds
FilterPairsAny(pairs, max_time_diff_sec, max_chainage_diff_m, enable_time, enable_road, enable_spatial) ==
    LET hvt == has_valid_time_data(pairs)
        d == WithDiffColumns(pairs)
    IN  SelectSeq(d.rows, LAMBDA r :
            \/ LaneCondition(r, d.cols, enable_road)
            \/ (enable_time /\ hvt) /\ TimeCondition(r, max_time_diff_sec)
            \/ enable_road /\ RoadCondition(r, max_chainage_diff_m, enable_time,
                                            enable_road, enable_spatial))

\* pairs_df.filter(pl.all_horizontal(filter_conditions)) on the pairs with
\* their difference columns
FilterPairs(pairs, max_time_diff_sec, max_chainage_diff_m, enable_time, enable_road, enable_spatial) ==
    LET hvt == has_valid_time_data(pairs)
        d == WithDiffColumns(pairs)
    IN  SelectSeq(d.rows, LAMBDA r :
            /\ LaneCondition(r, d.cols, enable_road)
            /\ (enable_time /\ hvt) => TimeCondition(r, max_time_diff_sec)
            /\ RoadCondition(r, max_chainage_diff_m, enable_time, enable_road,
                             enable_spatial))

\* a choice of sort column that prefers chainage_diff to time_diff
SortColumnChainageFirst(cols, enable_time, enable_road, enable_spatial) ==
    IF enable_road /\ "chainage_diff" \in cols THEN "chainage_diff"
    ELSE IF enable_time /\ "time_diff" \in cols THEN "time_diff"
    ELSE IF enable_spatial /\ "spatial_dist_m" \in cols THEN "spatial_dist_m"
    ELSE "none"

\* the column the survivors are sorted by ("none": no sort)
SortColumn(cols, enable_time, enable_road, enable_spatial) ==
    IF enable_time /\ "time_diff" \in cols THEN "time_diff"
    ELSE IF enable_road /\ "chainage_diff" \in cols THEN "chainage_diff"
    ELSE IF enable_spatial /\ "spatial_dist_m" \in cols THEN "spatial_dist_m"
    ELSE "none"

\* the value of the sort column in a row
SortKey(r, sort_column) ==
    CASE sort_column = "time_diff" -> r.time_diff
      [] sort_column = "chainage_diff" -> r.chainage_diff
      [] sort_column = "spatial_dist_m" -> r.spatial_dist_m
      [] OTHER -> 0

\* the positions a descending sort would put first in the group of g
LastOfGroup(rows, g, sort_column) ==
    LET grp == {i \in 1..Len(rows) : rows[i].msd_idx = g}
    IN  IF sort_column = "none"
        THEN {i \in grp : \A k \in grp : i >= k}
        ELSE {i \in grp : \A k \in grp :
                 SortKey(rows[i], sort_column) >= SortKey(rows[k], sort_column)}

\* the positions in rows that sort(sort_column).group_by("msd_idx").first()
\* can return for base row g.  DataFrame.sort is called without
\* maintain_order, so rows with equal keys come out in any order: each row
\* of the group with the least key can be first.  Without sort column the
\* first row of the group in table order is taken.
FirstOfGroup(rows, g, sort_column) ==
    LET grp == {i \in 1..Len(rows) : rows[i].msd_idx = g}
    IN  IF sort_column = "none"
        THEN {i \in grp : \A k \in grp : i <= k}
        ELSE {i \in grp : \A k \in grp :
                 SortKey(rows[i], sort_column) <= SortKey(rows[k], sort_column)}

\* a selection that keeps every survivor
KeepAll(rows, sort_column) == {rows}

\* the tables sort/group_by/first can return: one row per base row that has a
\* survivor; group_by is called without maintain_order, so the groups come
\* out in any order
SelectBest(rows, sort_column) ==
    LET G == {rows[i].msd_idx : i \in 1..Len(rows)}
        n == Cardinality(G)
        first == [g \in G |-> FirstOfGroup(rows, g, sort_column)]
        orders == {p \in [1..n -> G] : \A a, b \in 1..n : p[a] = p[b] => a = b}
        picks == {c \in [G -> UNION {first[g] : g \in G}] :
                     \A g \in G : c[g] \in first[g]}
    IN  {[i \in 1..n |-> rows[c[p[i]]]] : p \in orders, c \in picks}

\* filter_and_select_matches: the set of tables the call can return
filter_and_select_matches(pairs, max_time_diff_sec, max_chainage_diff_m, enable_time, enable_road, enable_spatial) ==
    LET d == WithDiffColumns(pairs)
        f == FilterPairs(pairs, max_time_diff_sec, max_chainage_diff_m,
                         enable_time, enable_road, enable_spatial)
        col == SortColumn(d.cols, enable_time, enable_road, enable_spatial)
    IN  IF f = <<>> THEN {EmptyDF}
        ELSE {[cols |-> d.cols, rows |-> b] : b \in SelectBest(f, col)}

(***************************************************************************)
(* output.py: create_output_dataframe, save_output                         *)
(***************************************************************************)
\* the columns of the prepared base table, in order: the columns of the CSV,
\* then the derived ones
MsdColumns(mcols) ==
    <<"Lane", "RoadName", "v">>
    \o SelectSeq(<<"v_lmd", "TestDateUTC", "lat", "chainage", "road_id", "region_id">>,
              LAMBDA c : c \in mcols)
    \o <<"TestDateUTC_parsed", "Lat", "Lon", "Chain", "msd_idx">>

\* the columns of the prepared aux table
LmdColumns(lcols) ==
    {"Lane", "RoadName", "v", "w", "TestDateUTC_parsed", "Lat", "Lon", "Chain",
     "lmd_idx"} \cup lcols

\* the elements of a sequence
Range(s) == {s[i] : i \in 1..Len(s)}

\* match_columns: the columns of best_matches joined onto the base table
MatchColumns(best) ==
    <<"lmd_idx">>
    \o (IF "time_diff" \in best.cols THEN <<"time_diff">> ELSE <<>>)
    \o (IF "chainage_diff" \in best.cols THEN <<"chainage_diff">> ELSE <<>>)

RECURSIVE NumberedSuffix(_, _, _, _)
\* the while loop: the first of base_suffix+2, base_suffix+3, ... that gives
\* col a name not in existing_cols
NumberedSuffix(col, base_suffix, counter, existing_cols) ==
    IF (col \o base_suffix \o ToString(counter)) \in existing_cols
    THEN NumberedSuffix(col, base_suffix, counter + 1, existing_cols)
    ELSE base_suffix \o ToString(counter)

\* the name a selected aux column gets in the output
OutputName(col, lmd_suffix, existing_cols) ==
    IF col \in existing_cols
    THEN IF (col \o lmd_suffix) \in existing_cols
         THEN col \o NumberedSuffix(col, lmd_suffix, 2, existing_cols)
         ELSE col \o lmd_suffix
    ELSE col

\* lmd_user_cols: the selected columns the aux table has, each with its
\* output name; existing_cols is the column set of the base table joined
\* with the match columns, the same for every selected column
LmdUserCols(best, mcols, lcols, lmd_output_cols, lmd_suffix) ==
    LET existing_cols == Range(MsdColumns(mcols)) \cup Range(MatchColumns(best))
        present == SelectSeq(lmd_output_cols, LAMBDA c : c \in LmdColumns(lcols))
    IN  [i \in 1..Len(present) |->
            [col |-> present[i],
             name |-> OutputName(present[i], lmd_suffix, existing_cols)]]

\* helper columns dropped before the table is returned
ColsToDrop ==
    {"time_diff", "chainage_diff", "msd_idx", "lmd_idx",
     "Lane_msd", "Time_msd", "Chain_msd", "RoadName_msd",
     "Lane_lmd", "Time_lmd", "Chain_lmd", "RoadName_lmd",
     "TestDateUTC_parsed", "Lat", "Lon", "Chain"}

\* create_output_dataframe raises when best_matches lacks the join columns
\* (the empty DataFrame) and when lmd_df.select is given two columns of the
\* same output name
OutputRaises(best, mcols, lcols, lmd_output_cols, lmd_suffix) ==
    LET u == LmdUserCols(best, mcols, lcols, lmd_output_cols, lmd_suffix)
    IN  \/ ~({"msd_idx", "lmd_idx"} \subseteq best.cols)
        \/ \E i, j \in 1..Len(u) : i # j /\ u[i].name = u[j].name

\* an inner join on msd_idx: base rows without a best match are lost
JoinMatchesInner(msd, best) ==
    LET hits(m) == SelectSeq(best.rows, LAMBDA b : b.msd_idx = m.msd_idx)
        one(m, b) == [msd_idx |-> m.msd_idx, base |-> m, lmd_idx |-> b.lmd_idx,
                      time_diff |-> b.time_diff,
                      chainage_diff |-> b.chainage_diff]
        RECURSIVE cat(_)
        cat(i) == IF i > Len(msd) THEN <<>>
                  ELSE [k \in 1..Len(hits(msd[i])) |-> one(msd[i], hits(msd[i])[k])]
                       \o cat(i + 1)
    IN  cat(1)

\* a join that starts from best_matches: the matched base rows in the order
\* of best_matches, then the base rows without match
JoinMatchesInMatchOrder(msd, best) ==
    LET row(g) == msd[CHOOSE i \in 1..Len(msd) : msd[i].msd_idx = g]
        matched == [k \in 1..Len(best.rows) |->
                      [msd_idx |-> best.rows[k].msd_idx,
                       base |-> row(best.rows[k].msd_idx),
                       lmd_idx |-> best.rows[k].lmd_idx,
                       time_diff |-> best.rows[k].time_diff,
                       chainage_diff |-> best.rows[k].chainage_diff]]
        rest == SelectSeq(msd, LAMBDA m :
                    \A k \in 1..Len(best.rows) : best.rows[k].msd_idx # m.msd_idx)
    IN  matched \o [i \in 1..Len(rest) |->
                      [msd_idx |-> rest[i].msd_idx, base |-> rest[i],
                       lmd_idx |-> NULL, time_diff |-> NULL,
                       chainage_diff |-> NULL]]

\* result.join(best_matches.select(match_columns), on="msd_idx", how="left"):
\* each base row once per best-match row of its msd_idx, or once with nulls
JoinMatches(msd, best) ==
    LET hits == [i \in 1..Len(msd) |->
                    SelectSeq(best.rows, LAMBDA b : b.msd_idx = msd[i].msd_idx)]
        one(m, b) == [msd_idx |-> m.msd_idx, base |-> m, lmd_idx |-> b.lmd_idx,
                      time_diff |-> b.time_diff,
                      chainage_diff |-> b.chainage_diff]
        none(m) == [msd_idx |-> m.msd_idx, base |-> m, lmd_idx |-> NULL,
                    time_diff |-> NULL, chainage_diff |-> NULL]
    IN  Flatten([i \in 1..Len(msd) |->
            IF hits[i] = <<>> THEN <<none(msd[i])>>
            ELSE [k \in 1..Len(hits[i]) |-> one(msd[i], hits[i][k])]])

\* the null of an aux column
NullOf(col) == IF col \in {"Lane", "RoadName", "Lanes"} THEN NoStr ELSE NULL

\* a join of the aux values by position in the table instead of by lmd_idx
JoinLmdByPosition(rows, lmd, u) ==
    LET kept == {i \in 1..Len(u) : u[i].name \notin ColsToDrop}
        names == {u[i].name : i \in kept}
        col(n) == (CHOOSE i \in kept : u[i].name = n)
    IN  [i \in 1..Len(rows) |->
            rows[i] @@ [aux |-> IF i <= Len(lmd)
                                THEN [n \in names |-> lmd[i][u[col(n)].col]]
                                ELSE [n \in names |-> NullOf(u[col(n)].col)]]]

\* result.join(lmd_user_data, on="lmd_idx", how="left"): the values of the
\* selected columns of the aux row with the row's lmd_idx, nulls without one;
\* only the columns that survive the drop are kept
JoinLmd(rows, lmd, u) ==
    LET kept == {i \in 1..Len(u) : u[i].name \notin ColsToDrop}
        names == {u[i].name : i \in kept}
        col == [n \in names |-> u[CHOOSE i \in kept : u[i].name = n].col]
        hits == [i \in 1..Len(rows) |->
                    SelectSeq(lmd, LAMBDA l : rows[i].lmd_idx # NULL
                                           /\ l.lmd_idx = rows[i].lmd_idx)]
        vals(l) == [n \in names |-> l[col[n]]]
        nulls == [n \in names |-> NullOf(col[n])]
    IN  Flatten([i \in 1..Len(rows) |->
            IF hits[i] = <<>> THEN <<rows[i] @@ [aux |-> nulls]>>
            ELSE [k \in 1..Len(hits[i]) |-> rows[i] @@ [aux |-> vals(hits[i][k])]]])

\* create_output_dataframe: the returned table.  cols are its column names
\* in order; a row keeps the msd_idx and lmd_idx it was built from (both
\* columns are dropped from the table), the base row, the two metrics and
\* the values of the aux columns by output name.
create_output_dataframe(best, msd, mcols, lmd, lcols, lmd_output_cols, lmd_suffix) ==
    LET u == LmdUserCols(best, mcols, lcols, lmd_output_cols, lmd_suffix)
        joined == JoinLmd(JoinMatches(msd, best), lmd, u)
        all == MsdColumns(mcols) \o MatchColumns(best)
               \o [i \in 1..Len(u) |-> u[i].name]
               \o (IF "time_diff" \in best.cols
                   THEN <<"time_diff_seconds">> ELSE <<>>)
               \o (IF "chainage_diff" \in best.cols
                   THEN <<"chainage_diff_meters">> ELSE <<>>)
    IN  [cols |-> SelectSeq(all, LAMBDA c : c \notin ColsToDrop),
         rows |-> [i \in 1..Len(joined) |->
                    [msd_idx |-> joined[i].msd_idx,
                     lmd_idx |-> joined[i].lmd_idx,
                     base |-> joined[i].base,
                     time_diff_seconds |-> joined[i].time_diff,
                     chainage_diff_meters |-> joined[i].chainage_diff,
                     aux |-> joined[i].aux]]]

(***************************************************************************)
(* gui.py WorkerThread.run, main.py merge_msd_lmd: the run                 *)
(***************************************************************************)
\* has_coordinates: both prepared tables have a row with non-null Lat/Lon
has_coordinates(msd, lmd) ==
    /\ \E i \in 1..Len(msd) : msd[i].Lat # NULL
    /\ \E j \in 1..Len(lmd) : lmd[j].Lat # NULL

\* has_road_matching_cols
has_road_matching_cols(mcols, lcols) ==
    RequiredMsdCols \subseteq mcols /\ RequiredLmdCols \subseteq lcols

\* len(df) of a prepared table: the tables of a run that trips the size
\* guard are not enumerated record by record, each row stands for p.scale
\* records with the same fields
RowCount(p, df) == Len(df) * p.scale

\* a force_spatial that never trips
NeverForce(p, msd, lmd) == FALSE

\* force_spatial: exhaustive pairing requested on more than 10M pairs
force_spatial(p, msd, lmd) ==
    ~p.enable_spatial /\ RowCount(p, msd) * RowCount(p, lmd) > PAIRS_THRESHOLD

\* force_road_matching: spatial requested without coordinates
force_road_matching(p, msd, lmd) ==
    p.enable_spatial /\ ~has_coordinates(msd, lmd)

\* a use_spatial that looks at the coordinates only
UseSpatialByData(p, msd, lmd) == has_coordinates(msd, lmd)

\* use_spatial
use_spatial(p, msd, lmd) ==
    /\ p.enable_spatial \/ force_spatial(p, msd, lmd)
    /\ has_coordinates(msd, lmd)
    /\ ~force_road_matching(p, msd, lmd)

\* use_road_based
use_road_based(p, mcols, lcols, msd, lmd) ==
    ~use_spatial(p, msd, lmd) /\ has_road_matching_cols(mcols, lcols)

\* the strategy of the run: the worker chooses by data availability,
\* merge_msd_lmd always matches spatially
Strategy(p, mcols, lcols, msd, lmd) ==
    IF p.entry = "cli" THEN "spatial"
    ELSE IF use_spatial(p, msd, lmd) THEN "spatial"
    ELSE IF use_road_based(p, mcols, lcols, msd, lmd) THEN "road"
    ELSE "all"

\* the criteria passed to filter_and_select_matches: the worker passes
\* enable_time and has_time_data (both prepared tables always have a
\* Datetime column TestDateUTC_parsed), enable_road or use_road_based, and
\* use_spatial; merge_msd_lmd leaves the three defaults (True)
EnableTime(p) == IF p.entry = "cli" THEN TRUE ELSE p.enable_time
EnableRoad(p, strat) ==
    IF p.entry = "cli" THEN TRUE ELSE p.enable_road \/ strat = "road"
EnableSpatial(p, strat) ==
    IF p.entry = "cli" THEN TRUE ELSE strat = "spatial"

\* the suffix passed to create_output_dataframe: merge_msd_lmd leaves the
\* default
LmdSuffix(p) == IF p.entry = "cli" THEN "_lmd" ELSE p.lmd_suffix

\* a return that emits nothing
EndSilently ==
    /\ pc' = "done"
    /\ signal' = signal

\* the run ends without output table: finished(None) / return
EndWithoutOutput ==
    /\ pc' = "done"
    /\ signal' = IF params.entry = "cli" THEN "return" ELSE "finished(None)"

\* the run ends by an exception: error signal / the exception propagates
EndWithError ==
    /\ pc' = "done"
    /\ signal' = IF params.entry = "cli" THEN "raise" ELSE "error"

\* prepare_msd_data and prepare_lmd_data
Prepare ==
    /\ pc = "start"
    /\ msd_df' = prepare_msd_data(msd_raw)
    /\ lmd_df' = prepare_lmd_data(lmd_raw)
    /\ pc' = "prepared"
    /\ UNCHANGED <<msd_raw, lmd_raw, params, pairs_df, strategy, filtered,
                   best_matches, result, saved, signal>>
    /\ UNCHANGED gui

\* what follows candidate generation: an empty pair table ends the run
AfterPairs(pairs) ==
    /\ pairs_df' = pairs
    /\ IF pairs.rows = <<>> THEN EndWithoutOutput
       ELSE pc' = "paired" /\ signal' = signal

\* the spatial strategy
SpatialMatching ==
    /\ pc = "prepared"
    /\ Strategy(params, msd_raw.cols, lmd_raw.cols, msd_df, lmd_df) = "spatial"
    /\ strategy' = "spatial"
    /\ IF SpatialRaises(msd_df, lmd_df)
       THEN EndWithError /\ pairs_df' = pairs_df
       ELSE AfterPairs(perform_spatial_matching(msd_df, lmd_df,
                                                params.max_spatial_dist))
    /\ UNCHANGED <<msd_raw, lmd_raw, params, msd_df, lmd_df, filtered,
                   best_matches, result, saved>>
    /\ UNCHANGED gui

\* the road-segment strategy
RoadBasedMatching ==
    /\ pc = "prepared"
    /\ Strategy(params, msd_raw.cols, lmd_raw.cols, msd_df, lmd_df) = "road"
    /\ strategy' = "road"
    /\ IF RoadJoinRaises(msd_raw.cols, lmd_raw.cols, msd_df, lmd_df)
       THEN EndWithError /\ pairs_df' = pairs_df
       ELSE AfterPairs(perform_road_based_matching(msd_raw.cols, lmd_raw.cols,
                                                   msd_df, lmd_df))
    /\ UNCHANGED <<msd_raw, lmd_raw, params, msd_df, lmd_df, filtered,
                   best_matches, result, saved>>
    /\ UNCHANGED gui

\* the exhaustive strategy
AllPairs ==
    /\ pc = "prepared"
    /\ Strategy(params, msd_raw.cols, lmd_raw.cols, msd_df, lmd_df) = "all"
    /\ strategy' = "all"
    /\ AfterPairs(create_all_pairs(msd_df, lmd_df,
           params.enable_road \/ force_road_matching(params, msd_df, lmd_df)))
    /\ UNCHANGED <<msd_raw, lmd_raw, params, msd_df, lmd_df, filtered,
                   best_matches, result, saved>>
    /\ UNCHANGED gui

\* filter_and_select_matches; an empty result ends the run
FilterAndSelect ==
    /\ pc = "paired"
    /\ filtered' = FilterPairs(pairs_df, params.max_time_diff,
                       params.max_chainage_diff, EnableTime(params),
                       EnableRoad(params, strategy),
                       EnableSpatial(params, strategy))
    /\ best_matches' \in filter_and_select_matches(pairs_df,
                       params.max_time_diff, params.max_chainage_diff,
                       EnableTime(params), EnableRoad(params, strategy),
                       EnableSpatial(params, strategy))
    /\ IF best_matches'.rows = <<>> THEN EndWithoutOutput
       ELSE pc' = "selected" /\ signal' = signal
    /\ UNCHANGED <<msd_raw, lmd_raw, params, msd_df, lmd_df, pairs_df,
                   strategy, result, saved>>
    /\ UNCHANGED gui

\* create_output_dataframe
CreateOutput ==
    /\ pc = "selected"
    /\ IF OutputRaises(best_matches, msd_raw.cols, lmd_raw.cols,
                       params.lmd_output_cols, LmdSuffix(params))
       THEN EndWithError /\ result' = result
       ELSE /\ result' = create_output_dataframe(best_matches, msd_df,
                             msd_raw.cols, lmd_df, lmd_raw.cols,
                             params.lmd_output_cols, LmdSuffix(params))
            /\ pc' = "assembled"
            /\ signal' = signal
    /\ UNCHANGED <<msd_raw, lmd_raw, params, msd_df, lmd_df, pairs_df,
                   strategy, filtered, best_matches, saved>>
    /\ UNCHANGED gui

\* save_output writes the CSV
SaveOutput ==
    /\ pc = "assembled"
    /\ saved' = TRUE
    /\ pc' = "saved"
    /\ UNCHANGED <<msd_raw, lmd_raw, params, msd_df, lmd_df, pairs_df,
                   strategy, filtered, best_matches, result, signal>>
    /\ UNCHANGED gui

\* progress "Completed!" and finished(result) / return after save_output
Finish ==
    /\ pc = "saved"
    /\ pc' = "done"
    /\ signal' = IF params.entry = "cli" THEN "return" ELSE "finished(result)"
    /\ UNCHANGED <<msd_raw, lmd_raw, params, msd_df, lmd_df, pairs_df,
                   strategy, filtered, best_matches, result, saved>>
    /\ UNCHANGED gui

Next ==
    \/ Prepare
    \/ SpatialMatching
    \/ RoadBasedMatching
    \/ AllPairs
    \/ FilterAndSelect
    \/ CreateOutput
    \/ SaveOutput
    \/ Finish

\* the main window after __init__: no file selected, Run and Stop disabled,
\* no worker; events are the signals of workers queued for the GUI thread
GuiIdle ==
    [msd_path |-> FALSE, lmd_path |-> FALSE, run_btn |-> FALSE,
     stop_btn |-> FALSE, workers |-> <<>>, events |-> <<>>]

(***************************************************************************)
(* Inputs of a run                                                         *)
(***************************************************************************)
\* rows of the base CSV: the values of the matching fields as they parse
\* (NULL: the value does not parse)
MsdRows(lanes, times, lats, chains, roads, road_ids, region_ids) ==
    [Lane : lanes, Time : times, Lat : lats, Chain : chains, RoadName : roads,
     road_id : road_ids, region_id : region_ids]

\* rows of the aux CSV
LmdRows(lanes, times, lats, chains, roads, road_ids, region_ids) ==
    [Lane : lanes, Time : times, Lat : lats, Chain : chains, RoadName : roads,
     road_id : road_ids, region_id : region_ids,
     StartKm : {1}, EndKm : {2}, Lanes : {"ALL"}]

\* the payload columns of the base CSV: v (and v_lmd), distinct per row
MsdTable(cols, rows) ==
    [cols |-> cols,
     rows |-> [i \in 1..Len(rows) |-> rows[i] @@ [v |-> 500 + i, v_lmd |-> 600 + i]]]

\* the payload columns of the aux CSV: v and w, distinct per row
LmdTable(cols, rows) ==
    [cols |-> cols,
     rows |-> [i \in 1..Len(rows) |-> rows[i] @@ [v |-> 700 + i, w |-> 900 + i]]]

\* optional columns of a CSV with timestamps and coordinates
PlainCols == {"TestDateUTC", "lat", "chainage"}
\* optional columns of an aux CSV of road segments: no coordinates, no
\* chainage column
SegmentCols == {"TestDateUTC", "road_id", "region_id", "Start Chainage (km)",
                "End Chainage (km)", "Lanes"}

\* the parameters the GUI passes when nothing is changed
DefaultParams ==
    [entry |-> "gui", enable_spatial |-> TRUE, enable_time |-> TRUE,
     enable_road |-> TRUE,
     max_time_diff |-> DEFAULT_MAX_TIME_DIFF_SEC,
     max_chainage_diff |-> DEFAULT_MAX_CHAINAGE_DIFF_M,
     max_spatial_dist |-> DEFAULT_MAX_SPATIAL_DIST_M,
     lmd_output_cols |-> <<"w">>, lmd_suffix |-> "_lmd", scale |-> 1]

\* selectable aux columns ("x" is a column the aux CSV does not have)
AuxColNames == {"v", "w", "Lane", "x"}

\* Families of inputs: each varies the fields one group of criteria reads
\* and keeps the others at a value that passes.  A family whose subject does
\* not need several rows on a side takes one row less there.
\* lanes: raw and normalised lane labels on both sides
InputsLanes ==
    [msd : {MsdTable(PlainCols, r) : r \in SeqsUpTo(
                MsdRows({"1", "L2", "X"}, {0}, {0}, {1000}, {"A"}, {1}, {1}),
                MaxBase)},
     lmd : {LmdTable(PlainCols, r) : r \in SeqsUpTo(
                LmdRows({"2", "L1", "X"}, {0}, {0}, {1000}, {"A"}, {1}, {1}),
                MaxAux)},
     params : {DefaultParams}]

\* positions and radius, from the GUI and from merge_msd_lmd
InputsSpatial ==
    [msd : {MsdTable(PlainCols, r) : r \in SeqsUpTo(
                MsdRows({"L1"}, {0}, {0, 1}, {1000}, {"A"}, {1}, {1}), MaxBase)},
     lmd : {LmdTable(PlainCols, r) : r \in SeqsUpTo(
                LmdRows({"L1"}, {0}, {1, 2}, {1000}, {"A"}, {1}, {1}), MaxAux)},
     params : {[DefaultParams EXCEPT !.max_spatial_dist = d, !.entry = e] :
                d \in {1}, e \in {"gui", "cli"}}]

\* timestamps: present, unparseable (NULL), or no timestamp column at all
InputsTime ==
    [msd : {MsdTable(c, r) :
                c \in {PlainCols, PlainCols \ {"TestDateUTC"}},
                r \in SeqsUpTo(
                  MsdRows({"L1"}, {0, NULL}, {0}, {1000}, {"A"}, {1}, {1}),
                  MaxBase - 1)},
     lmd : {LmdTable(c, r) :
                c \in {PlainCols, PlainCols \ {"TestDateUTC"}},
                r \in SeqsUpTo(
                  LmdRows({"L1"}, {2, 9, 11, NULL}, {0}, {1000}, {"A"}, {1}, {1}),
                  MaxAux)},
     params : {[DefaultParams EXCEPT !.enable_time = t] : t \in BOOLEAN}]

\* chainage and road name
InputsRoad ==
    [msd : {MsdTable(PlainCols, r) : r \in SeqsUpTo(
                MsdRows({"L1"}, {0}, {0}, {1000}, {"A"}, {1}, {1}), MaxBase - 1)},
     lmd : {LmdTable(PlainCols, r) : r \in SeqsUpTo(
                LmdRows({"L1"}, {0}, {0}, {1000, 1005, 1006}, {"A", "B"},
                        {1}, {1}), MaxAux)},
     params : {[DefaultParams EXCEPT !.enable_time = t, !.enable_road = r] :
                t \in BOOLEAN, r \in BOOLEAN}]

\* road segments: the aux CSV has no coordinates but road_id, region_id and
\* a chainage interval in km
InputsSegment ==
    [msd : {MsdTable(PlainCols \cup {"road_id", "region_id"}, r) :
                r \in SeqsUpTo(
                  MsdRows({"L1"}, {0}, {0}, {999, 1000, 2000, 2001}, {"A"},
                          {1}, {1}), MaxBase)},
     lmd : {LmdTable(SegmentCols, r) : r \in SeqsUpTo(
                LmdRows({"L1"}, {0}, {NULL}, {NULL}, {"A"}, {1, 2}, {1, 2}),
                MaxAux)},
     params : {DefaultParams,
               [DefaultParams EXCEPT !.enable_spatial = FALSE,
                                     !.enable_time = FALSE]}]

\* the selected aux columns, the suffix and a base CSV with a column v_lmd
InputsColumns ==
    [msd : {MsdTable(c, r) :
                c \in {PlainCols, PlainCols \cup {"v_lmd"}},
                r \in SeqsUpTo(
                  MsdRows({"L1"}, {0}, {0}, {1000}, {"A"}, {1}, {1}), MaxBase - 1)},
     lmd : {LmdTable(PlainCols, r) : r \in SeqsUpTo(
                LmdRows({"L1"}, {0}, {0}, {1000}, {"A"}, {1}, {1}), MaxAux - 1)},
     params : {[DefaultParams EXCEPT !.lmd_output_cols = c, !.lmd_suffix = x] :
                c \in SeqsUpTo(AuxColNames, MaxCols), x \in {"_lmd", "_x"}}]

\* matched and unmatched base rows, aux rows in both orders
InputsJoin ==
    [msd : {MsdTable(PlainCols, r) : r \in SeqsUpTo(
                MsdRows({"L1"}, {0}, {0, 500}, {1000}, {"A"}, {1}, {1}),
                MaxBase)},
     lmd : {LmdTable(PlainCols, r) : r \in SeqsUpTo(
                LmdRows({"L1", "X"}, {0}, {0, 500}, {1000}, {"A"}, {1}, {1}),
                MaxAux)},
     params : {[DefaultParams EXCEPT !.lmd_output_cols = <<"v", "w">>]}]

\* the criteria switches and the availability of coordinates and of the
\* road-segment columns
InputsStrategy ==
    [msd : {MsdTable(c, r) :
                c \in {PlainCols, PlainCols \cup {"road_id", "region_id"}},
                r \in SeqsUpTo(
                  MsdRows({"L1"}, {0}, {0}, {1000}, {"A"}, {1}, {1}), MaxBase - 1)},
     lmd : {LmdTable(c, r) :
                c \in {PlainCols, PlainCols \cup SegmentCols,
                       SegmentCols \cup {"chainage"}, {"chainage"}},
                r \in SeqsUpTo(
                  LmdRows({"L1"}, {0}, {0, NULL}, {1000}, {"A"}, {1}, {1}),
                  MaxAux - 1)},
     params : {[DefaultParams EXCEPT !.enable_spatial = s, !.enable_time = t,
                                     !.enable_road = r] :
                s \in BOOLEAN, t \in BOOLEAN, r \in BOOLEAN}
              \cup {[DefaultParams EXCEPT !.entry = "cli"]}]

\* large inputs: more than 10M potential pairs, with and without spatial
\* and road criterion, aux coordinates and road-segment columns
InputsLarge ==
    [msd : {MsdTable(c, r) :
                c \in {PlainCols, PlainCols \cup {"road_id", "region_id"}},
                r \in SeqsUpTo(
                  MsdRows({"L1"}, {0}, {0}, {1000}, {"A"}, {1}, {1}), MaxBase - 1)},
     lmd : {LmdTable(c, r) :
                c \in {PlainCols, SegmentCols \cup {"chainage"},
                       {"TestDateUTC", "chainage"}},
                r \in SeqsUpTo(
                  LmdRows({"L1"}, {0}, {0, NULL}, {1000}, {"A"}, {1}, {1}),
                  MaxAux - 1)},
     params : {[DefaultParams EXCEPT !.scale = LargeScale, !.enable_spatial = s,
                                     !.enable_road = r] :
                s \in BOOLEAN, r \in BOOLEAN}]

\* road-grouped pairing: the aux CSV has neither coordinates nor road-segment
\* columns; road names equal, different or missing (an empty cell)
InputsGrouped ==
    [msd : {MsdTable(PlainCols, r) : r \in SeqsUpTo(
                MsdRows({"L1"}, {0}, {0}, {1000}, {"A", NoStr}, {1}, {1}),
                MaxBase - 1)},
     lmd : {LmdTable({"TestDateUTC", "chainage"}, r) : r \in SeqsUpTo(
                LmdRows({"L1"}, {0}, {NULL}, {1000}, {"A", "B", NoStr}, {1}, {1}),
                MaxAux - 1)},
     params : {[DefaultParams EXCEPT !.enable_spatial = s, !.enable_road = r] :
                s \in BOOLEAN, r \in BOOLEAN}]

\* an aux CSV in which some rows have no coordinates
InputsPartial ==
    [msd : {MsdTable(PlainCols, r) : r \in SeqsUpTo(
                MsdRows({"L1"}, {0}, {0}, {1000}, {"A"}, {1}, {1}), MaxBase - 1)},
     lmd : {LmdTable(PlainCols, r) : r \in SeqsUpTo(
                LmdRows({"L1"}, {0}, {0, NULL}, {1000}, {"A"}, {1}, {1}), MaxAux)},
     params : {DefaultParams}]

\* road segments in an aux CSV without the column Lanes
InputsNoLanes ==
    [msd : {MsdTable(PlainCols \cup {"road_id", "region_id"}, r) :
                r \in SeqsUpTo(
                  MsdRows({"L1"}, {0}, {0}, {999, 1000}, {"A"}, {1}, {1}),
                  MaxBase - 1)},
     lmd : {LmdTable(SegmentCols \ {"Lanes"}, r) : r \in SeqsUpTo(
                LmdRows({"L1"}, {0}, {NULL}, {NULL}, {"A"}, {1}, {1}),
                MaxAux - 1)},
     params : {DefaultParams}]

\* road segments with a malformed bound: Start or End Chainage (km) missing
\* or not a number, in an aux CSV with and without a chainage column
InputsMalformed ==
    [msd : {MsdTable(PlainCols \cup {"road_id", "region_id"}, r) :
                r \in SeqsUpTo(
                  MsdRows({"L1"}, {0}, {0}, {1000}, {"A"}, {1}, {1}),
                  MaxBase - 1)},
     lmd : {LmdTable(c, r) :
                c \in {SegmentCols, SegmentCols \cup {"chainage"}},
                r \in SeqsUpTo(
                  {[l EXCEPT !.StartKm = a, !.EndKm = b] :
                      l \in LmdRows({"L1"}, {0}, {NULL}, {1000}, {"A"}, {1}, {1}),
                      a \in {1, NULL}, b \in {2, NULL}},
                  MaxAux)},
     params : {DefaultParams}]

Inputs ==
    InputsLanes \cup InputsSpatial \cup InputsTime \cup InputsRoad
    \cup InputsSegment \cup InputsColumns \cup InputsJoin \cup InputsStrategy
    \cup InputsLarge \cup InputsGrouped \cup InputsPartial \cup InputsNoLanes
    \cup InputsMalformed

Init ==
    /\ \E in \in Inputs :
          /\ msd_raw = in.msd
          /\ lmd_raw = in.lmd
          /\ params = in.params
    /\ pc = "start"
    /\ msd_df = <<>>
    /\ lmd_df = <<>>
    /\ pairs_df = EmptyDF
    /\ strategy = "none"
    /\ filtered = <<>>
    /\ best_matches = EmptyDF
    /\ result = NoResult
    /\ saved = FALSE
    /\ signal = "none"
    /\ gui = GuiIdle

Spec == Init /\ [][Next]_vars

\* the input families in which every way of ending a run occurs: an
\* exception in the matching or the join, no candidate pair, no surviving
\* match, and a saved output, by each of the three strategies
InputsSignals ==
    InputsStrategy \cup InputsLarge \cup InputsGrouped \cup InputsPartial
    \cup InputsNoLanes \cup InputsMalformed

InitSignals ==
    /\ \E in \in InputsSignals :
          /\ msd_raw = in.msd
          /\ lmd_raw = in.lmd
          /\ params = in.params
    /\ pc = "start"
    /\ msd_df = <<>>
    /\ lmd_df = <<>>
    /\ pairs_df = EmptyDF
    /\ strategy = "none"
    /\ filtered = <<>>
    /\ best_matches = EmptyDF
    /\ result = NoResult
    /\ saved = FALSE
    /\ signal = "none"
    /\ gui = GuiIdle

\* the runs of the worker over these families
SpecSignals == InitSignals /\ [][Next]_vars

(***************************************************************************)
(* Calls of filter_and_select_matches on a pair table                      *)
(***************************************************************************)
\* a candidate pair of base row L1, time 0, chainage 1000, road A; the base
\* row without timestamp is another base row (msd_idx 1)
PairRow(lane_lmd, time_msd, time_lmd, chain_lmd, road_lmd, dist) ==
    [msd_idx |-> IF time_msd = NULL THEN 1 ELSE 0, lmd_idx |-> 0,
     Lane_msd |-> "L1", Time_msd |-> time_msd, Chain_msd |-> 1000,
     RoadName_msd |-> "A",
     Lane_lmd |-> lane_lmd, Time_lmd |-> time_lmd, Chain_lmd |-> chain_lmd,
     RoadName_lmd |-> road_lmd, spatial_dist_m |-> dist]

\* the pairs a table is made of: one that passes every criterion with the
\* default thresholds, and the ones that differ from it in one field (a
\* value on the threshold, a value beyond it, a missing value)
PairRowValues ==
    {PairRow(l, 0, 2, 1000, "A", 1) : l \in {"L1", "L2", "ALL"}}
    \cup {PairRow("L1", NULL, 2, 1000, "A", 1)}
    \cup {PairRow("L1", 0, t, 1000, "A", 1) : t \in {10, 11}}
    \cup {PairRow("L1", 0, 2, c, "A", 1) : c \in {1005, 1006}}
    \cup {PairRow("L1", 0, 2, 1000, r, 1) : r \in {"B", NoStr}}
    \cup {PairRow("L1", 0, 2, 1000, "A", 2)}

\* a pair table of the given rows: each row is a pair with another aux row;
\* a table that does not come from perform_spatial_matching has no column
\* spatial_dist_m
PairTable(rows, with_dist) ==
    [cols |-> IF with_dist THEN PairCols \cup {"spatial_dist_m"} ELSE PairCols,
     rows |-> [i \in 1..Len(rows) |->
                 [rows[i] EXCEPT !.lmd_idx = i - 1,
                                 !.spatial_dist_m = IF with_dist THEN @ ELSE NULL]]]

\* the non-empty pair tables of a call
PairTables ==
    {PairTable(r, d) : r \in SeqsUpTo(PairRowValues, MaxPairs) \ {<<>>},
                       d \in BOOLEAN}

\* the arguments of a call: the table, the default thresholds and the three
\* switches
InitCall ==
    /\ pairs_df \in PairTables
    /\ params \in {[DefaultParams EXCEPT !.entry = "call", !.enable_time = t,
                                         !.enable_road = r, !.enable_spatial = s] :
                      t \in BOOLEAN, r \in BOOLEAN, s \in BOOLEAN}
    /\ pc = "called"
    /\ msd_raw = MsdTable(PlainCols, <<>>)
    /\ lmd_raw = LmdTable(PlainCols, <<>>)
    /\ msd_df = <<>>
    /\ lmd_df = <<>>
    /\ strategy = "none"
    /\ filtered = <<>>
    /\ best_matches = EmptyDF
    /\ result = NoResult
    /\ saved = FALSE
    /\ signal = "none"
    /\ gui = GuiIdle

\* filter_and_select_matches(pairs_df, max_time_diff_sec, max_chainage_diff_m,
\* enable_time, enable_road, enable_spatial) returns
CallFilterAndSelect ==
    /\ pc = "called"
    /\ filtered' = FilterPairs(pairs_df, params.max_time_diff,
                       params.max_chainage_diff, params.enable_time,
                       params.enable_road, params.enable_spatial)
    /\ best_matches' \in filter_and_select_matches(pairs_df,
                       params.max_time_diff, params.max_chainage_diff,
                       params.enable_time, params.enable_road,
                       params.enable_spatial)
    /\ pc' = "returned"
    /\ UNCHANGED <<msd_raw, lmd_raw, params, msd_df, lmd_df, pairs_df,
                   strategy, result, saved, signal>>
    /\ UNCHANGED gui

SpecCall == InitCall /\ [][CallFilterAndSelect]_vars

(***************************************************************************)
(* gui.py: the main window (MSDLMDMergerGUI) and its worker threads        *)
(***************************************************************************)
\* the variables of one run of the pipeline
pipeline == <<msd_raw, lmd_raw, params, pc, msd_df, lmd_df, pairs_df, strategy,
              filtered, best_matches, result, saved, signal>>

\* a worker thread just started: stage is what run() is doing (prepare,
\* match, filter, output, save: before write_csv has opened the file;
\* writing: inside write_csv; completed: save_output has returned;
\* returning: the terminal signal is emitted; ended: run() has returned;
\* terminated: QThread.terminate() has killed the thread); wrote is what
\* the thread has written of the output file
NewWorker == [stage |-> "prepare", wrote |-> "nothing"]

\* QThread.isRunning()
IsRunning(w) == w.stage \notin {"ended", "terminated"}

\* check_run_enabled
CheckRunEnabled(msd_path, lmd_path) == msd_path /\ lmd_path

\* the window before any event, one pipeline at its initial values
InitGui ==
    /\ gui = GuiIdle
    /\ pc = "gui"
    /\ params = DefaultParams
    /\ msd_raw = MsdTable(PlainCols, <<>>)
    /\ lmd_raw = LmdTable(PlainCols, <<>>)
    /\ msd_df = <<>>
    /\ lmd_df = <<>>
    /\ pairs_df = EmptyDF
    /\ strategy = "none"
    /\ filtered = <<>>
    /\ best_matches = EmptyDF
    /\ result = NoResult
    /\ saved = FALSE
    /\ signal = "none"

\* select_msd_file with a file chosen
SelectMsdFile ==
    /\ gui' = [gui EXCEPT !.msd_path = TRUE,
                          !.run_btn = CheckRunEnabled(TRUE, gui.lmd_path)]
    /\ UNCHANGED pipeline

\* select_lmd_file with a file chosen
SelectLmdFile ==
    /\ gui' = [gui EXCEPT !.lmd_path = TRUE,
                          !.run_btn = CheckRunEnabled(gui.msd_path, TRUE)]
    /\ UNCHANGED pipeline

\* run_merge, by a click on the enabled Run button: the controls are
\* switched and a new WorkerThread becomes self.worker and is started
RunMerge ==
    /\ gui.run_btn
    /\ Len(gui.workers) < MaxWorkers
    /\ IF gui.msd_path /\ gui.lmd_path
       THEN gui' = [gui EXCEPT !.run_btn = FALSE, !.stop_btn = TRUE,
                               !.workers = Append(@, NewWorker)]
       ELSE gui' = gui
    /\ UNCHANGED pipeline

\* stop_merge, by a click on the enabled Stop button: a running self.worker
\* is terminated wherever it is, then on_merge_finished(None)
StopMerge ==
    /\ gui.stop_btn
    /\ IF gui.workers # <<>> /\ IsRunning(gui.workers[Len(gui.workers)])
       THEN gui' = [gui EXCEPT !.workers[Len(gui.workers)].stage = "terminated",
                               !.run_btn = TRUE, !.stop_btn = FALSE]
       ELSE gui' = gui
    /\ UNCHANGED pipeline

\* run() of a worker goes on to its next stage; write_csv creates the output
\* file when it starts and has it complete when it returns
WorkerAdvance ==
    /\ \E k \in 1..Len(gui.workers) :
          LET w == gui.workers[k]
          IN  /\ w.stage \in {"prepare", "match", "filter", "output", "save",
                              "writing"}
              /\ gui' = [gui EXCEPT !.workers[k] =
                    CASE w.stage = "prepare" -> [w EXCEPT !.stage = "match"]
                      [] w.stage = "match" -> [w EXCEPT !.stage = "filter"]
                      [] w.stage = "filter" -> [w EXCEPT !.stage = "output"]
                      [] w.stage = "output" -> [w EXCEPT !.stage = "save"]
                      [] w.stage = "save" ->
                            [stage |-> "writing", wrote |-> "partial"]
                      [] w.stage = "writing" ->
                            [stage |-> "completed", wrote |-> "complete"]]
    /\ UNCHANGED pipeline

\* run() of a worker emits its terminal signal, which is queued for the GUI
\* thread: finished(None) without candidate pair or match, error from the
\* except clause, finished(result) after save_output
WorkerEmit ==
    /\ \E k \in 1..Len(gui.workers) :
          LET w == gui.workers[k]
          IN  \E sig \in {"finished(None)", "error", "finished(result)"} :
                /\ sig = "finished(None)" => w.stage \in {"match", "filter"}
                /\ sig = "error" =>
                      w.stage \in {"prepare", "match", "output", "save"}
                /\ sig = "finished(result)" => w.stage = "completed"
                /\ gui' = [gui EXCEPT !.workers[k].stage = "returning",
                                      !.events = Append(@, sig)]
    /\ UNCHANGED pipeline

\* run() of a worker returns and the thread ends
WorkerReturn ==
    /\ \E k \in 1..Len(gui.workers) :
          /\ gui.workers[k].stage = "returning"
          /\ gui' = [gui EXCEPT !.workers[k].stage = "ended"]
    /\ UNCHANGED pipeline

\* on_merge_finished, on delivery of a queued finished signal
OnMergeFinished ==
    /\ gui.events # <<>>
    /\ Head(gui.events) \in {"finished(None)", "finished(result)"}
    /\ gui' = [gui EXCEPT !.events = Tail(@), !.run_btn = TRUE,
                          !.stop_btn = FALSE]
    /\ UNCHANGED pipeline

\* on_merge_error, on delivery of a queued error signal
OnMergeError ==
    /\ gui.events # <<>>
    /\ Head(gui.events) = "error"
    /\ gui' = [gui EXCEPT !.events = Tail(@), !.run_btn = TRUE,
                          !.stop_btn = FALSE]
    /\ UNCHANGED pipeline

NextGui ==
    \/ SelectMsdFile
    \/ SelectLmdFile
    \/ RunMerge
    \/ StopMerge
    \/ WorkerAdvance
    \/ WorkerEmit
    \/ WorkerReturn
    \/ OnMergeFinished
    \/ OnMergeError

SpecGui == InitGui /\ [][NextGui]_vars

(***************************************************************************)
(* Properties                                                              *)
(***************************************************************************)
\* create_output_dataframe has returned a table in this run
OutputReturned == pc \in {"assembled", "saved"} \/ (pc = "done" /\ saved)

\* filter_and_select_matches has returned a non-empty table in this run
Selected == pc \in {"selected", "assembled", "saved"} \/ (pc = "done" /\ saved)

\* the number of rows of the pair table for base row i and aux row j
PairCount(i, j) ==
    Cardinality({n \in 1..Len(pairs_df.rows) :
                    /\ pairs_df.rows[n].msd_idx = msd_df[i].msd_idx
                    /\ pairs_df.rows[n].lmd_idx = lmd_df[j].lmd_idx})

\* C1: the table returned by create_output_dataframe has exactly |B| rows,
\* and each base id (msd_idx) of the prepared base table B is behind exactly
\* as many output rows as it has rows in B (one): no base row is lost, none
\* is duplicated, matched or not.
C1_OutputKeepsBaseRows ==
    OutputReturned =>
        /\ Len(result.rows) = Len(msd_df)
        /\ \A k \in 0..(Len(msd_df) - 1) :
              Cardinality({i \in 1..Len(result.rows) : result.rows[i].msd_idx = k})
                = Cardinality({i \in 1..Len(msd_df) : msd_df[i].msd_idx = k})
        /\ \A i \in 1..Len(result.rows) :
              result.rows[i].msd_idx \in 0..(Len(msd_df) - 1)

\* C1 witness: an output for two base rows, one matched and one unmatched
C1_Witness ==
    /\ OutputReturned
    /\ Len(msd_df) = 2
    /\ \E i, j \in 1..Len(result.rows) :
          result.rows[i].lmd_idx # NULL /\ result.rows[j].lmd_idx = NULL

\* C2: filter_and_select_matches never returns two rows with the same base
\* id: each base id gets at most one aux id as best match.
C2_OneMatchPerBase ==
    \A i, j \in 1..Len(best_matches.rows) :
        best_matches.rows[i].msd_idx = best_matches.rows[j].msd_idx => i = j

\* C2 witness: a base row with two surviving candidates, and two base rows
\* with a best match each
C2_Witness ==
    /\ Selected
    /\ Len(best_matches.rows) = 2
    /\ \E i, j \in 1..Len(filtered) :
          i # j /\ filtered[i].msd_idx = filtered[j].msd_idx

\* the aux row with a given lmd_idx
LmdRow(a) == lmd_df[CHOOSE j \in 1..Len(lmd_df) : lmd_df[j].lmd_idx = a]

C4_NoMatchStillOutputs ==
    (pc = "done" /\ signal \in {"finished(None)", "return"}
        /\ best_matches.rows = <<>> /\ Len(msd_df) > 0) =>
        /\ result # NoResult
        /\ Len(result.rows) = Len(msd_df)
        /\ \A i \in 1..Len(result.rows) : result.rows[i].lmd_idx = NULL

\* C5: every run on the same base table, aux table and configuration
\* assembles the same output table: whatever table filter_and_select_matches
\* can return for the pairs of this run, the output is the one of this run.
C5_Deterministic ==
    OutputReturned =>
        \A b \in filter_and_select_matches(pairs_df, params.max_time_diff,
                    params.max_chainage_diff, EnableTime(params),
                    EnableRoad(params, strategy),
                    EnableSpatial(params, strategy)) :
            create_output_dataframe(b, msd_df, msd_raw.cols, lmd_df,
                lmd_raw.cols, params.lmd_output_cols, LmdSuffix(params))
              = result

\* values of max_spatial_dist compared, each with the radius one metre larger
Radii == 0..MaxRadius

\* the number of base rows that get a match when the spatial strategy runs
\* on the prepared tables with radius d, everything else as configured
MatchedRows(d) ==
    LET pairs == perform_spatial_matching(msd_df, lmd_df, d)
        best == CHOOSE b \in filter_and_select_matches(pairs,
                    params.max_time_diff, params.max_chainage_diff,
                    EnableTime(params), EnableRoad(params, "spatial"),
                    EnableSpatial(params, "spatial")) : TRUE
    IN  Len(best.rows)

\* the tables are prepared and perform_spatial_matching accepts them
SpatialReady ==
    pc = "prepared" /\ ~SpatialRaises(msd_df, lmd_df)

\* C6: for the prepared tables and the configuration of the run, a larger
\* spatial radius never gives fewer matched base rows.  Stated for radii one
\* metre apart, from which it follows for every r1 <= r2 of the range.
C6_RadiusMonotone ==
    SpatialReady =>
        \A d \in Radii : MatchedRows(d) <= MatchedRows(d + 1)

\* C6 witness: tables for which radius 1 matches one base row and radius 2
\* matches two
C6_Witness ==
    /\ SpatialReady
    /\ MatchedRows(1) = 1
    /\ MatchedRows(2) = 2

\* the spatial strategy has returned its pair table in this run
SpatialDone ==
    strategy = "spatial" /\ signal \notin {"error", "raise"}

\* C7: perform_spatial_matching emits exactly one pair for each base row and
\* aux row at distance <= max_spatial_dist and no other pair.
C7_SpatialPairsExact ==
    SpatialDone =>
        \A i \in 1..Len(msd_df), j \in 1..Len(lmd_df) :
            PairCount(i, j)
              = IF Abs(msd_df[i].Lat - lmd_df[j].Lat) <= params.max_spatial_dist
                THEN 1 ELSE 0

\* C7 witness: one aux row exactly at the radius, paired, and one a metre
\* beyond, not paired
C7_Witness ==
    /\ SpatialDone
    /\ \E i \in 1..Len(msd_df), j, k \in 1..Len(lmd_df) :
          /\ Abs(msd_df[i].Lat - lmd_df[j].Lat) = params.max_spatial_dist
          /\ Abs(msd_df[i].Lat - lmd_df[k].Lat) = params.max_spatial_dist + 1
          /\ \E n \in 1..Len(pairs_df.rows) :
                /\ pairs_df.rows[n].msd_idx = msd_df[i].msd_idx
                /\ pairs_df.rows[n].lmd_idx = lmd_df[j].lmd_idx

\* a CSV with the lane of row i replaced
WithLane(raw, i, lane) == [raw EXCEPT !.rows[i].Lane = lane]

\* the raw row a prepared row was made from, by its payload column v
MsdRawOf(idx) ==
    msd_raw.rows[msd_df[CHOOSE i \in 1..Len(msd_df) :
                            msd_df[i].msd_idx = idx].v - 500]
LmdRawOf(idx) ==
    lmd_raw.rows[lmd_df[CHOOSE j \in 1..Len(lmd_df) :
                            lmd_df[j].lmd_idx = idx].v - 700]

\* C8: preparation treats raw lane "1" as "L1" and "2" as "L2" (the prepared
\* table is the one of the CSV with the label already normalised), every
\* prepared row has its normalised lane, in the vocabulary, and the two rows
\* behind every candidate pair have a normalised lane in the vocabulary.
C8_LaneNormalization ==
    LET LaneVocabulary == {"L1", "R1", "L2", "R2", "LSK1", "RSK1"}
        Normalized(lane) ==
            CASE lane = "1" -> "L1" [] lane = "2" -> "L2" [] OTHER -> lane
    IN
    /\ \A i \in 1..Len(msd_raw.rows) :
          msd_raw.rows[i].Lane \in {"1", "2"} =>
             prepare_msd_data(msd_raw)
               = prepare_msd_data(WithLane(msd_raw, i,
                                     Normalized(msd_raw.rows[i].Lane)))
    /\ \A j \in 1..Len(lmd_raw.rows) :
          lmd_raw.rows[j].Lane \in {"1", "2"} =>
             prepare_lmd_data(lmd_raw)
               = prepare_lmd_data(WithLane(lmd_raw, j,
                                     Normalized(lmd_raw.rows[j].Lane)))
    /\ \A i \in 1..Len(msd_df) :
          /\ msd_df[i].Lane = Normalized(MsdRawOf(msd_df[i].msd_idx).Lane)
          /\ msd_df[i].Lane \in LaneVocabulary
    /\ \A j \in 1..Len(lmd_df) :
          /\ lmd_df[j].Lane = Normalized(LmdRawOf(lmd_df[j].lmd_idx).Lane)
          /\ lmd_df[j].Lane \in LaneVocabulary
    /\ \A n \in 1..Len(pairs_df.rows) :
          /\ Normalized(MsdRawOf(pairs_df.rows[n].msd_idx).Lane) \in LaneVocabulary
          /\ Normalized(LmdRawOf(pairs_df.rows[n].lmd_idx).Lane) \in LaneVocabulary

\* C8 witness: best matches between a raw "1" base row and an "L1" aux row
\* and between an "L2" base row and a raw "2" aux row
C8_Witness ==
    /\ Selected
    /\ \E n \in 1..Len(best_matches.rows) :
          /\ MsdRawOf(best_matches.rows[n].msd_idx).Lane = "1"
          /\ LmdRawOf(best_matches.rows[n].lmd_idx).Lane = "L1"
    /\ \E n \in 1..Len(best_matches.rows) :
          /\ MsdRawOf(best_matches.rows[n].msd_idx).Lane = "L2"
          /\ LmdRawOf(best_matches.rows[n].lmd_idx).Lane = "2"

\* the road-segment strategy has returned its pair table in this run
RoadDone ==
    strategy = "road" /\ signal \notin {"error", "raise"}

\* C9: perform_road_based_matching emits the pair (base, aux) exactly when
\* road_id and region_id are equal and start km * 1000 <= chainage <=
\* end km * 1000, once; a missing bound satisfies no comparison.
C9_SegmentPairsExact ==
    RoadDone =>
        \A i \in 1..Len(msd_df), j \in 1..Len(lmd_df) :
            PairCount(i, j)
              = IF /\ msd_df[i].road_id = lmd_df[j].road_id
                   /\ msd_df[i].region_id = lmd_df[j].region_id
                   /\ lmd_df[j].StartKm # NULL
                   /\ lmd_df[j].EndKm # NULL
                   /\ lmd_df[j].StartKm * 1000 <= msd_df[i].Chain
                   /\ msd_df[i].Chain <= lmd_df[j].EndKm * 1000
                THEN 1 ELSE 0

\* C9 witness: a base chainage on a bound of a segment of its road, paired
\* with it, and a base chainage one metre outside a bound of a segment of its
\* road, not paired with it
C9_Witness ==
    /\ RoadDone
    /\ \E i, k \in 1..Len(msd_df), j \in 1..Len(lmd_df) :
          /\ msd_df[i].Chain \in {lmd_df[j].StartKm * 1000, lmd_df[j].EndKm * 1000}
          /\ msd_df[k].Chain \in {lmd_df[j].StartKm * 1000 - 1,
                                  lmd_df[j].EndKm * 1000 + 1}
          /\ msd_df[k].road_id = lmd_df[j].road_id
          /\ msd_df[k].region_id = lmd_df[j].region_id
          /\ PairCount(i, j) = 1
          /\ PairCount(k, j) = 0

\* the ranking key of the run
ActiveKey ==
    SortColumn(WithDiffColumns(pairs_df).cols, EnableTime(params),
               EnableRoad(params, strategy), EnableSpatial(params, strategy))

\* C10: every base id with a surviving candidate has a best match, the best
\* match is one of its surviving candidates, and no surviving candidate of
\* the same base id has a smaller value of the ranking key.
C10_BestIsMinimal ==
    Selected =>
        /\ \A i \in 1..Len(filtered) :
              \E n \in 1..Len(best_matches.rows) :
                  best_matches.rows[n].msd_idx = filtered[i].msd_idx
        /\ \A n \in 1..Len(best_matches.rows) :
              /\ \E i \in 1..Len(filtered) : filtered[i] = best_matches.rows[n]
              /\ \A i \in 1..Len(filtered) :
                    filtered[i].msd_idx = best_matches.rows[n].msd_idx =>
                       SortKey(best_matches.rows[n], ActiveKey)
                         <= SortKey(filtered[i], ActiveKey)

\* C10 witness: time ranking with surviving candidates 2 s and 9 s away; the
\* one 2 s away is the best match
C10_Witness ==
    /\ Selected
    /\ ActiveKey = "time_diff"
    /\ \E i, k \in 1..Len(filtered) :
          /\ filtered[i].msd_idx = filtered[k].msd_idx
          /\ filtered[i].time_diff = 2
          /\ filtered[k].time_diff = 9
          /\ \E n \in 1..Len(best_matches.rows) : best_matches.rows[n] = filtered[i]

\* the call of filter_and_select_matches has returned
Returned == pc = "returned"

\* the pair table of the call with its difference columns
Diffed == WithDiffColumns(pairs_df)

\* row i of the pair table is among the survivors of the filter
Survives(i) ==
    \E k \in 1..Len(filtered) :
        /\ filtered[k].msd_idx = pairs_df.rows[i].msd_idx
        /\ filtered[k].lmd_idx = pairs_df.rows[i].lmd_idx

\* C11: with the time criterion enabled, a pair whose base row has no
\* timestamp is not removed by the time criterion: if it meets the lane and
\* road conditions of the call it survives the filter, whatever the other
\* rows of the table hold.
C11_NullTimePasses ==
    (Returned /\ params.enable_time) =>
        \A i \in 1..Len(pairs_df.rows) :
            (/\ Diffed.rows[i].Time_msd = NULL
             /\ LaneCondition(Diffed.rows[i], Diffed.cols, params.enable_road)
             /\ RoadCondition(Diffed.rows[i], params.max_chainage_diff,
                              params.enable_time, params.enable_road,
                              params.enable_spatial))
                => Survives(i)

\* the strategy of the run is chosen
StrategyChosen == strategy # "none" /\ params.entry = "gui"

\* the run has more than 10,000,000 potential pairs
OverThreshold ==
    (Len(msd_df) * params.scale) * (Len(lmd_df) * params.scale) > 10000000

\* both prepared tables have a record with coordinates
BothLocated ==
    /\ \E i \in 1..Len(msd_df) : msd_df[i].Lat # NULL
    /\ \E j \in 1..Len(lmd_df) : lmd_df[j].Lat # NULL

\* create_cartesian_pairs was executed in this run
CartesianExecuted ==
    /\ strategy = "all"
    /\ ~(params.enable_road \/ force_road_matching(params, msd_df, lmd_df))

\* C12: with the spatial criterion disabled, more than 10,000,000 potential
\* pairs and coordinates in both tables, the worker runs the spatial
\* strategy and not the exhaustive pairing.
C12_LargeRunsSpatial ==
    (StrategyChosen /\ ~params.enable_spatial /\ OverThreshold /\ BothLocated)
        => strategy = "spatial"

\* C12 witness: such a run, past the choice of the spatial strategy
C12_Witness ==
    /\ StrategyChosen
    /\ ~params.enable_spatial
    /\ ~params.enable_road
    /\ OverThreshold
    /\ BothLocated
    /\ strategy = "spatial"
    /\ pairs_df.rows # <<>>

\* C13: with more than 10,000,000 potential pairs create_cartesian_pairs is
\* never executed.
C13_NoLargeCartesian ==
    (StrategyChosen /\ OverThreshold) => ~CartesianExecuted

\* the tables of the run are prepared
Prepared == pc \notin {"start", "called", "returned"}

\* C14: a base row whose timestamp, coordinate or chainage does not parse is
\* not removed: every record of the base CSV with a lane of the vocabulary
\* (as written or as "1"/"2") has its row in the prepared base table.
C14_UnparsedRowsKept ==
    Prepared =>
        \A i \in 1..Len(msd_raw.rows) :
            msd_raw.rows[i].Lane \in {"1", "2"} \cup VALID_LANES =>
                \E k \in 1..Len(msd_df) : msd_df[k].v = msd_raw.rows[i].v

\* both CSVs carry the columns of the road-segment strategy
RoadColsPresent ==
    /\ {"road_id", "region_id"} \subseteq msd_raw.cols
    /\ {"road_id", "region_id", "Start Chainage (km)", "End Chainage (km)"}
           \subseteq lmd_raw.cols

\* spatial matching is requested by the switch or forced by the size guard
SpatialWanted == params.enable_spatial \/ OverThreshold

\* C15 as stated: the strategy follows data availability alone: spatial
\* whenever both tables have a record with coordinates, road-segment only
\* without coordinates and with the road columns, exhaustive pairing only
\* when neither applies.
C15_StrategyByAvailability ==
    StrategyChosen =>
        /\ BothLocated => strategy = "spatial"
        /\ strategy = "road" => (~BothLocated /\ RoadColsPresent)
        /\ strategy = "all" => (~BothLocated /\ ~RoadColsPresent)

\* C15 amended: the spatial strategy runs exactly when spatial matching is
\* requested (or forced by the size guard) and both tables have a record with
\* coordinates; otherwise the road-segment strategy runs exactly when the road
\* columns are present; otherwise exhaustive pairing; and only the spatial
\* strategy yields a pair table with distances (one strategy per run).
C15_StrategyBySwitchAndData ==
    StrategyChosen =>
        /\ strategy = IF SpatialWanted /\ BothLocated THEN "spatial"
                      ELSE IF RoadColsPresent THEN "road" ELSE "all"
        /\ pairs_df.rows # <<>> =>
              ("spatial_dist_m" \in pairs_df.cols <=> strategy = "spatial")

\* C15 witness: coordinates in both tables, the spatial switch off, and the
\* road-segment strategy has produced pairs
C15_Witness ==
    /\ StrategyChosen
    /\ BothLocated
    /\ ~SpatialWanted
    /\ strategy = "road"
    /\ pairs_df.rows # <<>>

\* the time criterion is applied in the call: it is enabled and both time
\* columns of the table hold a timestamp
TimeApplied ==
    /\ params.enable_time
    /\ \E i \in 1..Len(pairs_df.rows) : pairs_df.rows[i].Time_msd # NULL
    /\ \E i \in 1..Len(pairs_df.rows) : pairs_df.rows[i].Time_lmd # NULL

\* the chainage criterion is applied in the call: the road criterion is
\* enabled together with the time or the spatial criterion
ChainageApplied ==
    params.enable_road /\ (params.enable_spatial \/ params.enable_time)

\* the pair meets every criterion applied in the call
MeetsCriteria(r) ==
    /\ r.Lane_msd = r.Lane_lmd \/ (params.enable_road /\ r.Lane_lmd = "ALL")
    /\ TimeApplied =>
          /\ r.Time_msd # NULL
          /\ r.Time_lmd # NULL
          /\ r.Time_msd - r.Time_lmd <= params.max_time_diff
          /\ r.Time_lmd - r.Time_msd <= params.max_time_diff
    /\ ChainageApplied =>
          /\ r.Chain_msd - r.Chain_lmd <= params.max_chainage_diff
          /\ r.Chain_lmd - r.Chain_msd <= params.max_chainage_diff
    /\ params.enable_road =>
          /\ r.RoadName_msd # NoStr
          /\ r.RoadName_msd = r.RoadName_lmd

\* row n of the returned table is the pair of row i of the pair table
IsPair(n, i) ==
    /\ best_matches.rows[n].msd_idx = pairs_df.rows[i].msd_idx
    /\ best_matches.rows[n].lmd_idx = pairs_df.rows[i].lmd_idx

SpatialCandidates == "spatial_dist_m" \in pairs_df.cols

\* C17: the lane criterion is equality of base lane and aux lane, and the
\* exception for the aux lane "ALL" does not apply to candidates of the
\* spatial strategy: of those, only pairs with equal lanes survive the filter.
C17_AllOnlyForRoadSegment ==
    (Returned /\ SpatialCandidates) =>
        \A i \in 1..Len(pairs_df.rows) :
            Survives(i) => pairs_df.rows[i].Lane_msd = pairs_df.rows[i].Lane_lmd

\* filter_and_select_matches has run on the candidates of this run
FilterRan ==
    /\ pc \in {"selected", "assembled", "saved", "done"}
    /\ pairs_df.rows # <<>>

\* row r of the pair table with its difference columns meets the lane, time
\* and road-name conditions of the worker's call in a road-segment run
MeetsAllButChainage(r) ==
    /\ LaneCondition(r, Diffed.cols, TRUE)
    /\ (EnableTime(params) /\ has_valid_time_data(pairs_df)) =>
           TimeCondition(r, params.max_time_diff)
    /\ StrEq(r.RoadName_msd, r.RoadName_lmd)

\* C18: in a run of the road-segment strategy no pair emitted by chainage
\* containment is removed because of its chainage difference: every pair
\* that meets the lane, time and road-name conditions survives the filter.
C18_NoChainageRefilter ==
    (FilterRan /\ strategy = "road") =>
        \A i \in 1..Len(pairs_df.rows) :
            MeetsAllButChainage(Diffed.rows[i]) => Survives(i)

\* the candidates of the run are road-derived: from
\* perform_road_based_matching or from create_road_based_pairs
RoadDerived ==
    \/ strategy = "road"
    \/ /\ strategy = "all"
       /\ params.enable_road \/ force_road_matching(params, msd_df, lmd_df)

\* C19: in a run with road-derived candidates every selected match has a
\* base road name and an aux road name that are present and equal.
C19_SelectedRoadNamesEqual ==
    (Selected /\ params.entry = "gui" /\ RoadDerived) =>
        \A n \in 1..Len(best_matches.rows) :
            /\ best_matches.rows[n].RoadName_msd # NoStr
            /\ best_matches.rows[n].RoadName_lmd # NoStr
            /\ best_matches.rows[n].RoadName_msd = best_matches.rows[n].RoadName_lmd

\* the table of the call has a column time_diff: both time columns hold a
\* timestamp
TimeDiffPresent ==
    /\ \E i \in 1..Len(pairs_df.rows) : pairs_df.rows[i].Time_msd # NULL
    /\ \E i \in 1..Len(pairs_df.rows) : pairs_df.rows[i].Time_lmd # NULL

\* the first applicable ranking key of the call
RankingKey ==
    IF params.enable_time /\ TimeDiffPresent THEN "time"
    ELSE IF params.enable_road THEN "chainage"
    ELSE IF params.enable_spatial /\ SpatialCandidates THEN "distance"
    ELSE "first-seen"

\* the value of the first applicable ranking key in a pair (first-seen: the
\* position of the pair in the table, which lmd_idx numbers)
RankOf(r) ==
    CASE RankingKey = "time" -> Abs(r.Time_msd - r.Time_lmd)
      [] RankingKey = "chainage" -> Abs(r.Chain_msd - r.Chain_lmd)
      [] RankingKey = "distance" -> r.spatial_dist_m
      [] OTHER -> r.lmd_idx

\* C20: the match selected for a base row has the least value of the first
\* applicable ranking key among the surviving pairs of that base row:
\* time_diff if the time criterion is enabled and time_diff is present,
\* otherwise chainage_diff if the road criterion is enabled, otherwise the
\* spatial distance if the spatial criterion is enabled (and the table has
\* distances), otherwise the first-seen pair.
C20_FirstApplicableKey ==
    Returned =>
        \A n \in 1..Len(best_matches.rows) :
            \A k \in 1..Len(filtered) :
                filtered[k].msd_idx = best_matches.rows[n].msd_idx =>
                    RankOf(best_matches.rows[n]) <= RankOf(filtered[k])

\* C20 witness: time and road criterion enabled, two surviving pairs of one
\* base row; the first is nearer in chainage (0 m against 5 m), the second
\* nearer in time (2 s against 10 s) and selected
C20_Witness ==
    /\ Returned
    /\ params.enable_time /\ params.enable_road
    /\ Len(filtered) = 2
    /\ filtered[1].msd_idx = filtered[2].msd_idx
    /\ filtered[1].Time_lmd - filtered[1].Time_msd = 10
    /\ filtered[1].Chain_lmd = filtered[1].Chain_msd
    /\ filtered[2].Time_lmd - filtered[2].Time_msd = 2
    /\ filtered[2].Chain_lmd - filtered[2].Chain_msd = 5
    /\ Len(best_matches.rows) = 1
    /\ IsPair(1, 2)

\* C21: among the surviving pairs of one base row with the same value of the
\* ranking key, the call selects the one that comes first in the pair table
\* (lmd_idx numbers the rows of the table in their order).
C21_TiesToFirstSeen ==
    Returned =>
        \A n \in 1..Len(best_matches.rows) :
            \A k \in 1..Len(filtered) :
                (/\ filtered[k].msd_idx = best_matches.rows[n].msd_idx
                 /\ RankOf(filtered[k]) = RankOf(best_matches.rows[n]))
                    => best_matches.rows[n].lmd_idx <= filtered[k].lmd_idx

\* create_output_dataframe was called in this run: a non-empty table of best
\* matches was selected and the run went on
OutputAttempted ==
    /\ best_matches.rows # <<>>
    /\ pc \in {"assembled", "saved", "done"}

\* the selected columns the aux table has
SelectedPresent ==
    {c \in Range(params.lmd_output_cols) : c \in LmdColumns(lmd_raw.cols)}

\* the names the collision policy can give column c: the name itself, with
\* the suffix, or with the suffix and a number
PolicyNames(c) ==
    {c, c \o LmdSuffix(params)}
    \cup {c \o LmdSuffix(params) \o ToString(n) : n \in 2..(MaxCols + 2)}

\* C22: create_output_dataframe returns a table whose column names are
\* pairwise distinct, and every selected aux column is in it under its own
\* name, name+suffix or name+suffix+N, also when a name is listed twice.
C22_CollisionPolicy ==
    OutputAttempted =>
        /\ signal \notin {"error", "raise"}
        /\ \A i, j \in 1..Len(result.cols) :
              result.cols[i] = result.cols[j] => i = j
        /\ \A c \in SelectedPresent :
              \E i \in 1..Len(result.cols) : result.cols[i] \in PolicyNames(c)
        /\ \A i, j \in 1..Len(params.lmd_output_cols) :
              (/\ i < j
               /\ params.lmd_output_cols[i] = params.lmd_output_cols[j]
               /\ params.lmd_output_cols[i] \in SelectedPresent)
                  => \E a, b \in 1..Len(result.cols) :
                        /\ a # b
                        /\ result.cols[a] \in PolicyNames(params.lmd_output_cols[i])
                        /\ result.cols[b] \in PolicyNames(params.lmd_output_cols[i])

\* C23: the rows of the table returned by create_output_dataframe are the
\* rows of the prepared base table in their order (ascending msd_idx),
\* whatever the order of the rows of best_matches and of the aux table.
C23_OutputInBaseOrder ==
    OutputReturned =>
        /\ Len(result.rows) = Len(msd_df)
        /\ \A i \in 1..Len(result.rows) : result.rows[i].base = msd_df[i]
        /\ \A i, j \in 1..Len(result.rows) :
              i < j => result.rows[i].msd_idx < result.rows[j].msd_idx

\* C23 witness: best_matches lists the second base row before the first, and
\* the first base row is matched to the second aux row
C23_Witness ==
    /\ OutputReturned
    /\ Len(best_matches.rows) = 2
    /\ best_matches.rows[1].msd_idx = 1
    /\ best_matches.rows[2].msd_idx = 0
    /\ best_matches.rows[2].lmd_idx = 1
    /\ result.rows[1].msd_idx = 0
    /\ result.rows[1].lmd_idx = 1

\* some but not all rows of the prepared aux table have coordinates
AuxPartlyLocated ==
    /\ \E j \in 1..Len(lmd_df) : lmd_df[j].Lat # NULL
    /\ \E j \in 1..Len(lmd_df) : lmd_df[j].Lat = NULL

\* C24: when the spatial strategy runs on an aux table in which some but not
\* all rows have coordinates, the run does not fail and no candidate pair
\* refers to an aux row without coordinates.
C24_UnlocatedAuxExcluded ==
    (strategy = "spatial" /\ AuxPartlyLocated) =>
        /\ signal \notin {"error", "raise"}
        /\ \A n \in 1..Len(pairs_df.rows) :
              LmdRow(pairs_df.rows[n].lmd_idx).Lat # NULL

\* a CSV lacks a column perform_road_based_matching reads: the required
\* ones, or the aux column Lanes of its second join
RoadColumnLacking ==
    \/ ~(RequiredMsdCols \subseteq msd_raw.cols)
    \/ ~(RequiredLmdCols \cup {"Lanes"} \subseteq lmd_raw.cols)

\* C25: when a table lacks a column the road-segment strategy reads,
\* perform_road_based_matching returns an empty candidate table and the run
\* does not fail.
C25_MissingColumnNoRaise ==
    (strategy = "road" /\ RoadColumnLacking) =>
        /\ pairs_df = EmptyDF
        /\ signal \notin {"error", "raise"}

\* the aux record has both chainage bounds
WellFormed(l) == l.StartKm # NULL /\ l.EndKm # NULL

\* the prepared aux table without its malformed records
WellFormedLmd == SelectSeq(lmd_df, LAMBDA l : WellFormed(l))

\* C26: in a run of the road-segment strategy the candidate pairs are exactly
\* the pairs the aux table without its malformed records yields (a malformed
\* record contributes no pair and takes none away), and the malformed record
\* does not fail the run: without pairs the run ends with finished(None).
C26_MalformedSegmentSkipped ==
    (RoadDone /\ "Lanes" \in lmd_raw.cols) =>
        /\ pairs_df = perform_road_based_matching(msd_raw.cols, lmd_raw.cols,
                                                  msd_df, WellFormedLmd)
        /\ \A n \in 1..Len(pairs_df.rows) :
              WellFormed(LmdRow(pairs_df.rows[n].lmd_idx))
        /\ (pc = "done" /\ pairs_df.rows = <<>>) => signal = "finished(None)"

\* C26 witness: a malformed record of the base row's road before a
\* well-formed one, which is paired with the base row
C26_Witness ==
    /\ RoadDone
    /\ Len(lmd_df) = 2
    /\ ~WellFormed(lmd_df[1])
    /\ lmd_df[1].EndKm # NULL
    /\ WellFormed(lmd_df[2])
    /\ Len(pairs_df.rows) = 1
    /\ pairs_df.rows[1].lmd_idx = lmd_df[2].lmd_idx

\* C29: every execution of WorkerThread.run emits exactly one terminal
\* signal, finished or error, and nothing after it: the signal is emitted
\* exactly on return, no step follows it, and a run that has not returned
\* always has a next step; finished carries the result only after
\* save_output has returned; finished(None) only when there is no candidate
\* pair or no match.
C29_OneTerminalSignal ==
    (params.entry = "gui" /\ pc \notin {"called", "returned"}) =>
        /\ pc = "done" <=> signal # "none"
        /\ pc = "done" <=> ~ENABLED Next
        /\ signal \in {"none", "finished(result)", "finished(None)", "error"}
        /\ signal = "finished(result)" => (saved /\ result # NoResult)
        /\ signal = "finished(None)" =>
              (~saved /\ (pairs_df.rows = <<>> \/ best_matches.rows = <<>>))
        /\ saved => pc \in {"saved", "done"}

\* C29 witness: a run of the worker that has saved its output and emitted
\* finished(result)
C29_Witness ==
    /\ params.entry = "gui"
    /\ pc = "done"
    /\ saved
    /\ signal = "finished(result)"

\* C27: a worker terminated by Stop was not in the middle of a stage, and
\* the output file it leaves is not written at all or written completely.
C27_NoPartialOutputOnStop ==
    \A k \in 1..Len(gui.workers) :
        gui.workers[k].stage = "terminated" =>
            gui.workers[k].wrote \in {"nothing", "complete"}

\* C28: at most one WorkerThread is running, and Run is disabled while one
\* is.
C28_AtMostOneWorker ==
    /\ Cardinality({k \in 1..Len(gui.workers) : IsRunning(gui.workers[k])}) <= 1
    /\ (\E k \in 1..Len(gui.workers) : IsRunning(gui.workers[k]))
           => ~gui.run_btn

\* the lanes of both prepared tables are in the valid lane vocabulary
LanesInVocabulary ==
    /\ \A i \in 1..Len(msd_df) : msd_df[i].Lane \in VALID_LANES
    /\ \A j \in 1..Len(lmd_df) : lmd_df[j].Lane \in VALID_LANES

\* the (msd_idx, lmd_idx) pairs of a pair table that pass the filter of
\* filter_and_select_matches with enable_road = True; an empty pair table
\* ends the run before the filter is called
RoadFilterSurvivors(pairs, enable_time, enable_spatial) ==
    IF pairs.rows = <<>> THEN {}
    ELSE LET f == FilterPairs(pairs, params.max_time_diff,
                              params.max_chainage_diff, enable_time, TRUE,
                              enable_spatial)
         IN  {<<f[i].msd_idx, f[i].lmd_idx>> : i \in 1..Len(f)}

\* C30: for prepared tables whose lanes are all in the valid vocabulary, the
\* road-grouped pairing followed by the filter with enable_road = True keeps
\* the same set of (base id, aux id) pairs as the cartesian pairing followed
\* by the same filter, whatever the other two switches are.
C30_GroupingKeepsSurvivors ==
    (pc = "prepared" /\ LanesInVocabulary) =>
        \A enable_time \in BOOLEAN, enable_spatial \in BOOLEAN :
            RoadFilterSurvivors(create_all_pairs(msd_df, lmd_df, TRUE),
                                enable_time, enable_spatial)
            = RoadFilterSurvivors(create_cartesian_pairs(msd_df, lmd_df),
                                  enable_time, enable_spatial)

\* C30 witness: prepared tables for which the grouping leaves out pairs of
\* the cartesian product and a pair passes the filter after either pairing
C30_Witness ==
    /\ pc = "prepared"
    /\ LanesInVocabulary
    /\ Len(create_road_based_pairs(msd_df, lmd_df).rows)
          < Len(create_cartesian_pairs(msd_df, lmd_df).rows)
    /\ RoadFilterSurvivors(create_road_based_pairs(msd_df, lmd_df), TRUE, FALSE)
          # {}
    /\ RoadFilterSurvivors(create_cartesian_pairs(msd_df, lmd_df), TRUE, FALSE)
          # {}

====
